---- MODULE Spec2Model ----
(***************************************************************************)
(* ssh-menu config.py: the on-disk servers document (JSON text), its      *)
(* loader get_servers_config, init_config, and the in-memory              *)
(* ServersConfig registry with add_server / remove_server / get_server /  *)
(* save.                                                                   *)
(*                                                                         *)
(* Files hold JSON text as a sequence of lexical tokens (whitespace        *)
(* included), json.dumps produces that text and json.loads parses it.      *)
(* Python values are records [t, s, items]: t is the Python type, s the    *)
(* payload of a scalar, items the ordered (key, val) pairs of a dict or    *)
(* the elements of a list.  Strings are plain ASCII without characters     *)
(* that JSON escapes.                                                      *)
(***************************************************************************)
EXTENDS Integers, Sequences, FiniteSets, TLC

VARIABLES dirExists, file, reg, last

vars == <<dirExists, file, reg, last>>

(* ------------------------------ bounds -------------------------------- *)

\* names add_server / remove_server / get_server are called with
NumNames == 2

\* entries under "servers" in the documents found on disk at start
MaxEntries == 2

NameStr == <<"box", "web", "db", "nas">>

Names == {NameStr[i] : i \in 1..NumNames}

\* (user, address) pairs add_server is called with
Creds == {<<"alice", "1.2.3.4">>, <<"bob", "example.org">>}

(* ------------------------- module constants --------------------------- *)

VERSION == "1"

VERSION_KEY == "version"

SERVERS_KEY == "servers"

USER_KEY == "user"

ADDRESS_KEY == "address"

(* --------------------------- Python values ---------------------------- *)

PyStr(s) == [t |-> "str", s |-> s, items |-> <<>>]

PyInt(s) == [t |-> "int", s |-> s, items |-> <<>>]

PyNone == [t |-> "none", s |-> "", items |-> <<>>]

PyBool(s) == [t |-> "bool", s |-> s, items |-> <<>>]

PyList(elems) ==
    [t |-> "list", s |-> "",
     items |-> [i \in 1..Len(elems) |-> [key |-> "", val |-> elems[i]]]]

PyDict(items) == [t |-> "dict", s |-> "", items |-> items]

\* position of key k in an ordered dict, 0 when absent
DictIndex(items, k) ==
    IF \E i \in 1..Len(items) : items[i].key = k
    THEN CHOOSE i \in 1..Len(items) : items[i].key = k
    ELSE 0

DictHas(items, k) == DictIndex(items, k) # 0

DictGet(items, k) == items[DictIndex(items, k)].val

\* d[k] = v : an existing key keeps its position, a new key goes last
DictSet(items, k, v) ==
    IF DictHas(items, k)
    THEN [items EXCEPT ![DictIndex(items, k)].val = v]
    ELSE Append(items, [key |-> k, val |-> v])

\* del d[k], for a key that is present
DictDel(items, k) ==
    LET i == DictIndex(items, k)
    IN  SubSeq(items, 1, i - 1) \o SubSeq(items, i + 1, Len(items))

\* substring test, as `k in s` for two str
StrContains(s, k) ==
    \E i \in 1..(Len(s) - Len(k) + 1) : SubSeq(s, i, i + Len(k) - 1) = k

\* `k in c` for a str k: "TypeError" when c is not a container
PyIn(k, c) ==
    CASE c.t = "dict" -> IF DictHas(c.items, k) THEN "true" ELSE "false"
      [] c.t = "list" ->
            IF \E i \in 1..Len(c.items) : c.items[i].val = PyStr(k)
            THEN "true" ELSE "false"
      [] c.t = "str" -> IF StrContains(c.s, k) THEN "true" ELSE "false"
      [] OTHER -> "TypeError"

\* c[k] for a str k: only a dict can be indexed by a str
PyGetItem(c, k) ==
    IF c.t = "dict"
    THEN IF DictHas(c.items, k)
         THEN [raised |-> "none", val |-> DictGet(c.items, k)]
         ELSE [raised |-> "KeyError", val |-> PyNone]
    ELSE [raised |-> "TypeError", val |-> PyNone]

\* "%s" % v for the scalars
PyFormat(v) ==
    CASE v.t = "str" -> v.s
      [] v.t = "int" -> v.s
      [] v.t = "none" -> "None"
      [] v.t = "bool" -> IF v.s = "true" THEN "True" ELSE "False"

(* ------------------------------ JSON text ----------------------------- *)

Tok(k, v) == [k |-> k, v |-> v]

LBrace == Tok("punct", "{")

RBrace == Tok("punct", "}")

LBracket == Tok("punct", "[")

RBracket == Tok("punct", "]")

Colon == Tok("punct", ":")

Comma == Tok("punct", ",")

Space == Tok("ws", " ")

Indent == <<"\n", "\n  ", "\n    ", "\n      ", "\n        ">>

\* the newline and indentation json.dumps(indent=2) writes at a depth
NL(depth) == Tok("ws", Indent[depth + 1])

RECURSIVE json_dumps(_, _)
RECURSIVE DumpItems(_, _, _, _)

\* the items of a container from position i on, one per line
DumpItems(c, i, depth, isDict) ==
    IF i > Len(c.items) THEN <<>>
    ELSE <<NL(depth)>>
         \o (IF isDict THEN <<Tok("str", c.items[i].key), Colon, Space>> ELSE <<>>)
         \o json_dumps(c.items[i].val, depth)
         \o (IF i < Len(c.items) THEN <<Comma>> ELSE <<>>)
         \o DumpItems(c, i + 1, depth, isDict)

\* json.dumps(v, indent=2), v nested at depth
json_dumps(v, depth) ==
    CASE v.t = "str" -> <<Tok("str", v.s)>>
      [] v.t = "int" -> <<Tok("num", v.s)>>
      [] v.t = "none" -> <<Tok("lit", "null")>>
      [] v.t = "bool" -> <<Tok("lit", v.s)>>
      [] v.t = "dict" ->
            IF Len(v.items) = 0 THEN <<LBrace, RBrace>>
            ELSE <<LBrace>> \o DumpItems(v, 1, depth + 1, TRUE)
                 \o <<NL(depth), RBrace>>
      [] v.t = "list" ->
            IF Len(v.items) = 0 THEN <<LBracket, RBracket>>
            ELSE <<LBracket>> \o DumpItems(v, 1, depth + 1, FALSE)
                 \o <<NL(depth), RBracket>>

ParseFail == [ok |-> FALSE, val |-> PyNone, next |-> 0]

ParseOk(v, next) == [ok |-> TRUE, val |-> v, next |-> next]

IsWs(tok) == tok.k = "ws"

NotWs(tok) == ~IsWs(tok)

RECURSIVE ParseValue(_, _)
RECURSIVE ParseMembers(_, _, _)
RECURSIVE ParseElements(_, _, _)

\* "key": value pairs after "{" or ",", collected into acc
ParseMembers(ts, i, acc) ==
    IF i + 1 > Len(ts) THEN ParseFail
    ELSE IF ts[i].k # "str" \/ ts[i + 1] # Colon THEN ParseFail
    ELSE LET r == ParseValue(ts, i + 2)
         IN  IF ~r.ok \/ r.next > Len(ts) THEN ParseFail
             ELSE LET acc2 == DictSet(acc, ts[i].v, r.val)
                  IN  IF ts[r.next] = Comma
                      THEN ParseMembers(ts, r.next + 1, acc2)
                      ELSE IF ts[r.next] = RBrace
                      THEN ParseOk(PyDict(acc2), r.next + 1)
                      ELSE ParseFail

\* values after "[" or ",", collected into acc
ParseElements(ts, i, acc) ==
    LET r == ParseValue(ts, i)
    IN  IF ~r.ok \/ r.next > Len(ts) THEN ParseFail
        ELSE LET acc2 == Append(acc, r.val)
             IN  IF ts[r.next] = Comma
                 THEN ParseElements(ts, r.next + 1, acc2)
                 ELSE IF ts[r.next] = RBracket
                 THEN ParseOk(PyList(acc2), r.next + 1)
                 ELSE ParseFail

\* one JSON value starting at token i (whitespace already skipped)
ParseValue(ts, i) ==
    IF i > Len(ts) THEN ParseFail
    ELSE CASE ts[i].k = "str" -> ParseOk(PyStr(ts[i].v), i + 1)
           [] ts[i].k = "num" -> ParseOk(PyInt(ts[i].v), i + 1)
           [] ts[i].k = "lit" ->
                 ParseOk(IF ts[i].v = "null" THEN PyNone ELSE PyBool(ts[i].v), i + 1)
           [] ts[i] = LBrace ->
                 IF i + 1 <= Len(ts) /\ ts[i + 1] = RBrace
                 THEN ParseOk(PyDict(<<>>), i + 2)
                 ELSE ParseMembers(ts, i + 1, <<>>)
           [] ts[i] = LBracket ->
                 IF i + 1 <= Len(ts) /\ ts[i + 1] = RBracket
                 THEN ParseOk(PyList(<<>>), i + 2)
                 ELSE ParseElements(ts, i + 1, <<>>)
           [] OTHER -> ParseFail

\* json.loads(text): one value and nothing but whitespace after it
json_loads(text) ==
    LET ts == SelectSeq(text, NotWs)
        r == ParseValue(ts, 1)
    IN  IF r.ok /\ r.next = Len(ts) + 1
        THEN [raised |-> "none", val |-> r.val]
        ELSE [raised |-> "JSONDecodeError", val |-> PyNone]

(* ------------------------------- Server ------------------------------- *)

Server(name, user, address) == [name |-> name, user |-> user, address |-> address]

\* a mutation of connection_string: the two fields the wrong way round
connection_string_swapped(server) ==
    PyFormat(server.address) \o "@" \o PyFormat(server.user)

connection_string(server) == PyFormat(server.user) \o "@" \o PyFormat(server.address)

\* a mutation of Server.to_map: the address is left out
Server_to_map_no_address(server) ==
    PyDict(<<[key |-> USER_KEY, val |-> server.user]>>)

Server_to_map(server) ==
    PyDict(<<[key |-> USER_KEY, val |-> server.user],
             [key |-> ADDRESS_KEY, val |-> server.address]>>)

(* ---------------------------- ServersConfig --------------------------- *)

\* self.servers is an ordered dict: a sequence of [key, val |-> Server]

RECURSIVE ServerMaps(_, _, _)

\* the loop of to_map: config_map[SERVERS_KEY][name] = server.to_map()
ServerMaps(servers, i, acc) ==
    IF i > Len(servers) THEN acc
    ELSE ServerMaps(servers, i + 1,
                    DictSet(acc, servers[i].key, Server_to_map(servers[i].val)))

ServersConfig_to_map(servers) ==
    PyDict(<<[key |-> VERSION_KEY, val |-> PyStr(VERSION)],
             [key |-> SERVERS_KEY, val |-> PyDict(ServerMaps(servers, 1, <<>>))]>>)

\* the position in self.servers of the first record named name; 0 is None
get_server(servers, name) ==
    IF \E i \in 1..Len(servers) : servers[i].val.name = name
    THEN CHOOSE i \in 1..Len(servers) :
            /\ servers[i].val.name = name
            /\ \A j \in 1..(i - 1) : servers[j].val.name # name
    ELSE 0

\* a mutation of add_server: no lookup, the record is always inserted
add_server_always_insert(servers, name, user, address) ==
    Append(servers, [key |-> name, val |-> Server(name, user, address)])

\* a mutation of add_server: a new record is stored under its user
add_server_keyed_by_user(servers, name, user, address) ==
    LET i == get_server(servers, name)
    IN  IF i # 0
        THEN [servers EXCEPT ![i].val.user = user, ![i].val.address = address]
        ELSE DictSet(servers, user.s, Server(name, user, address))

add_server(servers, name, user, address) ==
    LET i == get_server(servers, name)
    IN  IF i # 0
        THEN [servers EXCEPT ![i].val.user = user, ![i].val.address = address]
        ELSE DictSet(servers, name, Server(name, user, address))

\* a mutation of remove_server: del without the lookup
remove_server_unchecked(servers, name) ==
    IF DictHas(servers, name)
    THEN [raised |-> "none", servers |-> DictDel(servers, name)]
    ELSE [raised |-> "KeyError", servers |-> servers]

\* del self.servers[name] raises KeyError when no record is stored under name
remove_server(servers, name) ==
    LET i == get_server(servers, name)
    IN  IF i # 0
        THEN IF DictHas(servers, name)
             THEN [raised |-> "none", servers |-> DictDel(servers, name)]
             ELSE [raised |-> "KeyError", servers |-> servers]
        ELSE [raised |-> "none", servers |-> servers]

\* the text save writes
save(servers) == json_dumps(ServersConfig_to_map(servers), 0) \o <<NL(0)>>

(* ------------------------- get_servers_config ------------------------- *)

Raise(kind, msg) == [raised |-> kind, msg |-> msg, servers |-> <<>>]

RECURSIVE LoadEntries(_, _, _)

\* the loop over config[SERVERS_KEY].items(), from entry i on
LoadEntries(items, i, servers) ==
    IF i > Len(items) THEN [raised |-> "none", msg |-> "", servers |-> servers]
    ELSE LET name == items[i].key
             server == items[i].val
             hasUser == PyIn(USER_KEY, server)
             hasAddress == PyIn(ADDRESS_KEY, server)
             user == PyGetItem(server, USER_KEY)
             address == PyGetItem(server, ADDRESS_KEY)
         IN  IF hasUser = "TypeError" THEN Raise("TypeError", "")
             ELSE IF hasUser = "false"
             THEN Raise("InvalidConfigException",
                        "server missing required key: " \o USER_KEY)
             ELSE IF hasAddress = "TypeError" THEN Raise("TypeError", "")
             ELSE IF hasAddress = "false"
             THEN Raise("InvalidConfigException",
                        "server missing required key: " \o ADDRESS_KEY)
             ELSE IF user.raised # "none" THEN Raise(user.raised, "")
             ELSE IF address.raised # "none" THEN Raise(address.raised, "")
             ELSE LoadEntries(items, i + 1,
                              DictSet(servers, name,
                                      Server(name, user.val, address.val)))

NoRaise == [raised |-> "none", msg |-> "", servers |-> <<>>]

\* a mutation of CheckVersion: the value of "version" is not compared
CheckVersion_presence_only(config) ==
    LET hasVersion == PyIn(VERSION_KEY, config)
    IN  IF hasVersion = "TypeError" THEN Raise("TypeError", "")
        ELSE IF hasVersion = "false"
        THEN Raise("InvalidConfigException", "unsupported config version")
        ELSE NoRaise

\* if not VERSION_KEY in config or config[VERSION_KEY] != VERSION: raise
CheckVersion(config) ==
    LET hasVersion == PyIn(VERSION_KEY, config)
        version == PyGetItem(config, VERSION_KEY)
    IN  IF hasVersion = "TypeError" THEN Raise("TypeError", "")
        ELSE IF hasVersion = "false"
        THEN Raise("InvalidConfigException", "unsupported config version")
        ELSE IF version.raised # "none" THEN Raise(version.raised, "")
        ELSE IF version.val # PyStr(VERSION)
        THEN Raise("InvalidConfigException", "unsupported config version")
        ELSE NoRaise

\* a mutation of CheckServers: the type of "servers" is not tested
CheckServers_presence_only(config) ==
    LET hasServers == PyIn(SERVERS_KEY, config)
    IN  IF hasServers = "TypeError" THEN Raise("TypeError", "")
        ELSE IF hasServers = "false"
        THEN Raise("InvalidConfigException",
                   "malformed or missing " \o SERVERS_KEY \o " from config")
        ELSE NoRaise

\* if not SERVERS_KEY in config or not isinstance(config[SERVERS_KEY], dict): raise
CheckServers(config) ==
    LET hasServers == PyIn(SERVERS_KEY, config)
        servers == PyGetItem(config, SERVERS_KEY)
    IN  IF hasServers = "TypeError" THEN Raise("TypeError", "")
        ELSE IF hasServers = "false"
        THEN Raise("InvalidConfigException",
                   "malformed or missing " \o SERVERS_KEY \o " from config")
        ELSE IF servers.raised # "none" THEN Raise(servers.raised, "")
        ELSE IF servers.val.t # "dict"
        THEN Raise("InvalidConfigException",
                   "malformed or missing " \o SERVERS_KEY \o " from config")
        ELSE NoRaise

\* the checks of the parsed document, in the order of the code
ValidateConfig(config) ==
    IF CheckVersion(config).raised # "none" THEN CheckVersion(config)
    ELSE IF CheckServers(config).raised # "none" THEN CheckServers(config)
    ELSE LoadEntries(PyGetItem(config, SERVERS_KEY).val.items, 1, <<>>)

\* get_servers_config(path) on the file f at path
get_servers_config(f) ==
    IF ~f.exists THEN Raise("FileNotFoundError", "")
    ELSE LET config == json_loads(f.content)
         IN  IF config.raised # "none" THEN Raise(config.raised, "")
             ELSE ValidateConfig(config.val)

\* the text init_config writes
config_template ==
    json_dumps(PyDict(<<[key |-> VERSION_KEY, val |-> PyStr(VERSION)],
                        [key |-> SERVERS_KEY, val |-> PyDict(<<>>)]>>), 0)

\* a mutation of init_config: the template is written over an existing file
init_config_overwrite(f) == [exists |-> TRUE, content |-> config_template]

init_config(f) ==
    IF f.exists THEN f ELSE [exists |-> TRUE, content |-> config_template]

(* --------------------------- files at start --------------------------- *)

Item(k, v) == [key |-> k, val |-> v]

\* what an entry under "servers" may be
EntryKinds ==
    { PyDict(<<Item(USER_KEY, PyStr("alice")), Item(ADDRESS_KEY, PyStr("1.2.3.4"))>>),
      PyDict(<<Item(ADDRESS_KEY, PyStr("1.2.3.4"))>>),
      PyDict(<<Item(USER_KEY, PyStr("alice"))>>),
      PyDict(<<>>),
      PyInt("5"),
      PyStr("useraddress"),
      PyList(<<PyStr(USER_KEY), PyStr(ADDRESS_KEY)>>) }

EntrySeqs == UNION {[1..n -> EntryKinds] : n \in 0..MaxEntries}

ServersValues ==
    { PyList(<<>>), PyStr("x"), PyInt("5"), PyNone, PyBool("true") }
    \cup { PyDict([i \in 1..Len(es) |-> Item(NameStr[i], es[i])]) : es \in EntrySeqs }

VersionItems ==
    { <<>>,
      <<Item(VERSION_KEY, PyStr("1"))>>,
      <<Item(VERSION_KEY, PyStr("2"))>>,
      <<Item(VERSION_KEY, PyInt("1"))>> }

ServersItems == {<<>>} \cup {<<Item(SERVERS_KEY, v)>> : v \in ServersValues}

\* JSON values a file may hold: objects, and top-level values of other types
DocValues ==
    { PyDict(vi \o si) : vi \in VersionItems, si \in ServersItems }
    \cup { PyList(<<>>), PyList(<<PyStr(VERSION_KEY)>>), PyStr(VERSION_KEY),
           PyStr("abc"), PyInt("5"), PyNone, PyBool("false") }

\* text that is not JSON: empty, free text, a cut document, a trailing comma,
\* two values
BadTexts ==
    { <<>>,
      <<Tok("raw", "not json")>>,
      SubSeq(config_template, 1, Len(config_template) - 1),
      <<LBrace, Tok("str", VERSION_KEY), Colon, Tok("str", VERSION), Comma, RBrace>>,
      config_template \o config_template }

Texts == {json_dumps(v, 0) : v \in DocValues} \cup BadTexts

NoFile == [exists |-> FALSE, content |-> <<>>]

NoRegistry == [live |-> FALSE, servers |-> <<>>]

\* the last call: its arguments, whether its lookup found a record, what it
\* raised and what it returned
Result(op, name, user, address, found, raised, msg, ret) ==
    [op |-> op, name |-> name, user |-> user, address |-> address,
     found |-> found, raised |-> raised, msg |-> msg, ret |-> ret]

(* ------------------------------ behaviour ----------------------------- *)

Init ==
    /\ \/ file = NoFile /\ dirExists \in BOOLEAN
       \/ file \in {[exists |-> TRUE, content |-> t] : t \in Texts} /\ dirExists = TRUE
    /\ reg = NoRegistry
    /\ last = Result("start", "", "", "", FALSE, "none", "", "")

\* init_config()
InitConfig ==
    /\ dirExists' = TRUE
    /\ file' = init_config(file)
    /\ last' = Result("init_config", "", "", "", FALSE, "none", "", "")
    /\ UNCHANGED reg

\* config = get_servers_config(path); a raise leaves the caller without a
\* new registry
Load ==
    LET r == get_servers_config(file)
    IN  /\ reg' = IF r.raised = "none" THEN [live |-> TRUE, servers |-> r.servers]
                  ELSE reg
        /\ last' = Result("get_servers_config", "", "", "", FALSE, r.raised, r.msg, "")
        /\ UNCHANGED <<dirExists, file>>

\* config.add_server(name, user, address)
AddServer(name, user, address) ==
    /\ reg.live
    /\ reg' = [reg EXCEPT !.servers = add_server(reg.servers, name, PyStr(user), PyStr(address))]
    /\ last' = Result("add_server", name, user, address,
                       get_server(reg.servers, name) # 0, "none", "", "")
    /\ UNCHANGED <<dirExists, file>>

\* config.remove_server(name)
RemoveServer(name) ==
    LET r == remove_server(reg.servers, name)
    IN  /\ reg.live
        /\ reg' = [reg EXCEPT !.servers = r.servers]
        /\ last' = Result("remove_server", name, "", "",
                          get_server(reg.servers, name) # 0, r.raised, "", "")
        /\ UNCHANGED <<dirExists, file>>

\* config.get_server(name), and connection_string() of the record found
GetServer(name) ==
    LET i == get_server(reg.servers, name)
    IN  /\ reg.live
        /\ last' = Result("get_server", name, "", "", i # 0, "none", "",
                          IF i = 0 THEN "None"
                          ELSE connection_string(reg.servers[i].val))
        /\ UNCHANGED <<dirExists, file, reg>>

\* config.save()
Save ==
    /\ reg.live
    /\ file' = [exists |-> TRUE, content |-> save(reg.servers)]
    /\ last' = Result("save", "", "", "", FALSE, "none", "", "")
    /\ UNCHANGED <<dirExists, reg>>

Next ==
    \/ InitConfig
    \/ Load
    \/ \E name \in Names, c \in Creds : AddServer(name, c[1], c[2])
    \/ \E name \in Names : RemoveServer(name)
    \/ \E name \in Names : GetServer(name)
    \/ Save

Spec == Init /\ [][Next]_vars

(* ------------------------------- claims ------------------------------- *)

\* the records of a registry, and the names they are stored under
Records(servers) == {servers[i].val : i \in 1..Len(servers)}

Keys(servers) == {servers[i].key : i \in 1..Len(servers)}

Named(servers, name) == {i \in 1..Len(servers) : servers[i].val.name = name}

\* the document in the file, once get_servers_config has read it
Loaded == last.op = "get_servers_config" /\ file.exists

Doc == json_loads(file.content)

IsObject == Doc.raised = "none" /\ Doc.val.t = "dict"

HasVersion1 ==
    /\ IsObject
    /\ DictHas(Doc.val.items, VERSION_KEY)
    /\ DictGet(Doc.val.items, VERSION_KEY) = PyStr("1")

HasServersObject ==
    /\ IsObject
    /\ DictHas(Doc.val.items, SERVERS_KEY)
    /\ DictGet(Doc.val.items, SERVERS_KEY).t = "dict"

\* the values under "servers", in document order
Entries ==
    LET items == DictGet(Doc.val.items, SERVERS_KEY).items
    IN  [i \in 1..Len(items) |-> items[i].val]

\* an entry that is an object without key k
Lacks(entry, k) == entry.t = "dict" /\ ~DictHas(entry.items, k)

Offending(entry) == Lacks(entry, USER_KEY) \/ Lacks(entry, ADDRESS_KEY)

FirstOffending ==
    CHOOSE i \in 1..Len(Entries) :
        /\ Offending(Entries[i])
        /\ \A j \in 1..(i - 1) : ~Offending(Entries[j])

\* C1: after save(), get_servers_config on the same path succeeds and yields
\* a registry with the same names, each record with the same name, user and
\* address as the registry that was saved.
C1_RoundTrip ==
    last.op = "save" =>
        LET r == get_servers_config(file)
        IN  /\ r.raised = "none"
            /\ Len(r.servers) = Len(reg.servers)
            /\ Keys(r.servers) = Keys(reg.servers)
            /\ Records(r.servers) = Records(reg.servers)
            /\ \A i \in 1..Len(r.servers) : r.servers[i].key = r.servers[i].val.name

\* a registry of two records with different users has been saved
C1_Witness ==
    /\ last.op = "save"
    /\ Len(reg.servers) = 2
    /\ reg.servers[1].val.user # reg.servers[2].val.user

\* C2: init_config leaves a file that exists as it is, and a second
\* consecutive init_config leaves the file as the first one left it.
C2_InitNonDestructive ==
    [][last'.op = "init_config" =>
         /\ file.exists => file' = file
         /\ last.op = "init_config" => file' = file]_vars

\* init_config has run on a file whose content is not JSON, and the file still
\* holds that content
C2_Witness ==
    /\ last.op = "init_config"
    /\ file.exists
    /\ json_loads(file.content).raised = "JSONDecodeError"

\* C3: add_server(name, u, a) does not raise and leaves exactly one record
\* under name, with user u and address a; the count is unchanged when name
\* was present and grows by one otherwise; the other records are unchanged.
C3_Upsert ==
    [][last'.op = "add_server" =>
         LET n == last'.name
             pre == reg.servers
             post == reg'.servers
         IN  /\ last'.raised = "none"
             /\ Cardinality(Named(post, n)) = 1
             /\ Cardinality({i \in 1..Len(post) : post[i].key = n}) = 1
             /\ \A i \in Named(post, n) :
                    /\ post[i].key = n
                    /\ post[i].val.user = PyStr(last'.user)
                    /\ post[i].val.address = PyStr(last'.address)
             /\ Len(post) = (IF Named(pre, n) # {} THEN Len(pre) ELSE Len(pre) + 1)
             /\ \A i \in 1..Len(pre) :
                    pre[i].val.name # n => \E j \in 1..Len(post) : post[j] = pre[i]
             /\ \A j \in 1..Len(post) :
                    post[j].val.name # n => \E i \in 1..Len(pre) : pre[i] = post[j]]_vars

\* add_server has updated the first of two records to the second pair of values
C3_Witness ==
    /\ last.op = "add_server"
    /\ last.found
    /\ Len(reg.servers) = 2
    /\ reg.servers[1].key = last.name
    /\ reg.servers[1].val.user = PyStr("bob")

\* C4: remove_server(name) does not raise; with no record under name the
\* registry is unchanged, otherwise exactly that record is gone and every
\* other record is unchanged.
C4_Remove ==
    [][last'.op = "remove_server" =>
         LET n == last'.name
             pre == reg.servers
             post == reg'.servers
         IN  /\ last'.raised = "none"
             /\ Named(pre, n) = {} => post = pre
             /\ Named(pre, n) # {} =>
                    /\ Named(post, n) = {}
                    /\ n \notin Keys(post)
                    /\ Len(post) = Len(pre) - 1
                    /\ \A i \in 1..Len(pre) :
                           pre[i].val.name # n => \E j \in 1..Len(post) : post[j] = pre[i]]_vars

\* remove_server was called with a name that a non-empty registry does not hold
C4_Witness ==
    /\ last.op = "remove_server"
    /\ ~last.found
    /\ Len(reg.servers) >= 1

\* C5: for a document with version "1" and an object-valued servers, if an
\* entry lacks the key user or the key address, get_servers_config fails with
\* InvalidConfigException; for the first such entry the message names user
\* when user is missing and address only when user is present.
C5_MissingKeyRejected ==
    (Loaded /\ HasVersion1 /\ HasServersObject
        /\ \E i \in 1..Len(Entries) : Offending(Entries[i])) =>
        /\ last.raised = "InvalidConfigException"
        /\ last.msg = (IF Lacks(Entries[FirstOffending], USER_KEY)
                       THEN "server missing required key: user"
                       ELSE "server missing required key: address")

\* C6: for a document whose version key is absent or whose version is not the
\* string "1", get_servers_config fails with
\* InvalidConfigException("unsupported config version"), whatever else the
\* document holds.
C6_VersionRejected ==
    (Loaded /\ IsObject /\ ~HasVersion1) =>
        /\ last.raised = "InvalidConfigException"
        /\ last.msg = "unsupported config version"

\* a document was refused whose version is the number 1 and whose servers
\* holds an entry that is not an object
C6_Witness ==
    /\ Loaded
    /\ IsObject
    /\ DictHas(Doc.val.items, VERSION_KEY)
    /\ DictGet(Doc.val.items, VERSION_KEY) = PyInt("1")
    /\ HasServersObject
    /\ \E i \in 1..Len(Entries) : Entries[i].t = "int"
    /\ last.msg = "unsupported config version"

\* C7: for a document with version "1" whose servers key is absent or whose
\* servers is not an object, get_servers_config fails with
\* InvalidConfigException("malformed or missing servers from config").
C7_ServersRejected ==
    (Loaded /\ HasVersion1 /\ ~HasServersObject) =>
        /\ last.raised = "InvalidConfigException"
        /\ last.msg = "malformed or missing servers from config"

\* a document was refused whose version is "1" and whose servers is an array
C7_Witness ==
    /\ Loaded
    /\ HasVersion1
    /\ DictHas(Doc.val.items, SERVERS_KEY)
    /\ DictGet(Doc.val.items, SERVERS_KEY).t = "list"
    /\ last.raised = "InvalidConfigException"

\* C8: after add_server(name, u, a), get_server(name) finds a record and its
\* connection_string() is u, "@", a.
C8_ConnectionString ==
    last.op = "add_server" =>
        LET i == get_server(reg.servers, last.name)
        IN  /\ i # 0
            /\ connection_string(reg.servers[i].val)
                   = last.user \o "@" \o last.address

\* add_server("box", "alice", "1.2.3.4") on an empty registry, and the
\* connection string of the record is "alice@1.2.3.4"
C8_Witness ==
    /\ last.op = "add_server"
    /\ ~last.found
    /\ last.name = "box"
    /\ Len(reg.servers) = 1
    /\ connection_string(reg.servers[get_server(reg.servers, "box")].val)
           = "alice@1.2.3.4"

\* C9: get_servers_config returns a registry or fails with
\* InvalidConfigException or with an I/O failure, and with an I/O failure only
\* when the file cannot be read.
C9_ClosedTaxonomy ==
    last.op = "get_servers_config" =>
        /\ last.raised \in {"none", "InvalidConfigException", "FileNotFoundError"}
        /\ last.raised = "FileNotFoundError" <=> ~file.exists

KeyNameConsistent(servers) ==
    /\ \A i \in 1..Len(servers) : servers[i].key = servers[i].val.name
    /\ \A i, j \in 1..Len(servers) : servers[i].key = servers[j].key => i = j
    /\ \A k \in Names \cup Keys(servers) : get_server(servers, k) = DictIndex(servers, k)

\* C10: every record is stored under its own name, so names are unique and
\* the scan of get_server agrees with lookup by key; no step changes the name
\* of a record that stays, and add_server on an existing name changes only
\* user and address.
C10_KeyName ==
    /\ [](reg.live => KeyNameConsistent(reg.servers))
    /\ [][\A i \in 1..Len(reg.servers), j \in 1..Len(reg'.servers) :
            reg.servers[i].key = reg'.servers[j].key
                => reg'.servers[j].val.name = reg.servers[i].val.name]_vars
    /\ [][(last'.op = "add_server" /\ last'.found) =>
            /\ Len(reg'.servers) = Len(reg.servers)
            /\ \A i \in 1..Len(reg.servers) :
                   /\ reg'.servers[i].key = reg.servers[i].key
                   /\ reg'.servers[i].val.name = reg.servers[i].val.name]_vars

\* a loaded registry of two records after add_server updated one of them
C10_Witness ==
    /\ reg.live
    /\ last.op = "add_server"
    /\ last.found
    /\ Len(reg.servers) = 2

====
